---- MODULE Spec2Model ----
(***************************************************************************)
(* A model of pilutils: the colour-string parsers and nearest-named-colour *)
(* lookup of pilutils/parse.py and the hex conversions and bounding-box    *)
(* alignment of pilutils/basic.py.                                         *)
(*                                                                         *)
(* Python strings are sequences of one-character strings.  A call either   *)
(* returns a value, Ok(v), or raises, Err(kind).  Every error of the code  *)
(* is a ValueError; the kinds below name its distinct messages.            *)
(***************************************************************************)
EXTENDS Integers, Sequences, FiniteSets, TLC

VARIABLES
    css_names,          \* parse.py: _css_names
    crayola_names,      \* parse.py: _crayola_names
    xkcd_names,         \* parse.py: _xkcd_names
    meodai_best_names,  \* parse.py: _meodai_best_names
    meodai_names,       \* parse.py: _meodai_names
    call,               \* the call in progress (operation and arguments), or NoCall
    ret                 \* the outcome of that call, or NoRet

vars == <<css_names, crayola_names, xkcd_names, meodai_best_names, meodai_names, call, ret>>

palettes == <<css_names, crayola_names, xkcd_names, meodai_best_names, meodai_names>>

\* ---------------------------------------------------------------- bounds

\* Leading / trailing blanks put around an input string.
MaxPad == 1
\* Frame coordinates range over 0..MaxCoord.
MaxCoord == 2
\* Box width and height range over 0..MaxSize.
MaxSize == 2
\* Margins range over -MaxMargin..MaxMargin.
MaxMargin == 1

\* ---------------------------------------------------------------- outcomes

Ok(v) == [ok |-> TRUE, val |-> v]
Err(kind) == [ok |-> FALSE, err |-> kind]

NoCall == [op |-> "none"]
NoRet == [ok |-> FALSE, err |-> "pending"]

\* ---------------------------------------------------------------- strings

Whitespace == {" ", "\t", "\n"}
Digits == <<"0", "1", "2", "3", "4", "5", "6", "7", "8", "9">>
HexLower == Digits \o <<"a", "b", "c", "d", "e", "f">>
UpperCase == <<"A", "B", "C", "D", "E", "F", "G", "H", "I", "J", "K", "L", "M",
               "N", "O", "P", "Q", "R", "S", "T", "U", "V", "W", "X", "Y", "Z">>
LowerCase == <<"a", "b", "c", "d", "e", "f", "g", "h", "i", "j", "k", "l", "m",
               "n", "o", "p", "q", "r", "s", "t", "u", "v", "w", "x", "y", "z">>

Range(s) == {s[i] : i \in DOMAIN s}

UpperSet == Range(UpperCase)
DigitSet == Range(Digits)
HexLowerSet == Range(HexLower)
LowerOf == [c \in UpperSet |-> LowerCase[CHOOSE i \in DOMAIN UpperCase : UpperCase[i] = c]]
HexValOf == [c \in HexLowerSet |-> (CHOOSE i \in DOMAIN HexLower : HexLower[i] = c) - 1]

\* str.lower() on one character, and on a string.
LowerChar(c) == IF c \in UpperSet THEN LowerOf[c] ELSE c
Lower(s) == [i \in DOMAIN s |-> LowerChar(s[i])]

\* str.strip(): drop leading and trailing whitespace.
RECURSIVE LStrip(_)
LStrip(s) == IF s /= <<>> /\ Head(s) \in Whitespace THEN LStrip(Tail(s)) ELSE s
RECURSIVE RStrip(_)
RStrip(s) ==
    IF s /= <<>> /\ s[Len(s)] \in Whitespace THEN RStrip(SubSeq(s, 1, Len(s) - 1)) ELSE s
Strip(s) == RStrip(LStrip(s))

IsDigit(c) == c \in DigitSet
IsHexDigit(c) == LowerChar(c) \in HexLowerSet
AllDigits(s) == \A i \in DOMAIN s : IsDigit(s[i])
AllHexDigits(s) == \A i \in DOMAIN s : IsHexDigit(s[i])

\* The value of one digit, decimal or hexadecimal.
HexVal(c) == HexValOf[LowerChar(c)]

\* int(s, base) for a string of digits of that base.
RECURSIVE IntOfBase(_, _)
IntOfBase(s, base) ==
    IF s = <<>> THEN 0
    ELSE IntOfBase(SubSeq(s, 1, Len(s) - 1), base) * base + HexVal(s[Len(s)])

\* The parts of s between the occurrences of sep (str.split(sep)).
RECURSIVE Split(_, _)
Split(s, sep) ==
    LET hits == {i \in DOMAIN s : s[i] = sep} IN
    IF hits = {} THEN <<s>>
    ELSE LET i == CHOOSE j \in hits : \A k \in hits : j <= k
         IN <<SubSeq(s, 1, i - 1)>> \o Split(SubSeq(s, i + 1, Len(s)), sep)

\* ---------------------------------------------------------------- basic.py: hex conversions

RECURSIVE Pow2(_)
Pow2(n) == IF n = 0 THEN 1 ELSE 2 * Pow2(n - 1)

\* Python's a << n, a >> n and a | b on non-negative integers.
ShiftLeft(a, n) == a * Pow2(n)
ShiftRight(a, n) == a \div Pow2(n)
RECURSIVE BitOr(_, _)
BitOr(a, b) ==
    IF a = 0 THEN b
    ELSE IF b = 0 THEN a
    ELSE 2 * BitOr(a \div 2, b \div 2) + (IF a % 2 = 1 \/ b % 2 = 1 THEN 1 ELSE 0)

MaxRgbNumber == 16777215

hex_to_rgb(rgb) ==
    IF ~(0 <= rgb /\ rgb <= MaxRgbNumber)
    THEN Err("NotAnRgbNumber")
    ELSE Ok(<<ShiftRight(rgb, 16), ShiftRight(rgb, 8) % 256, rgb % 256>>)

\* Mutant of rgb_to_hex: the green channel is shifted by 4 bits, not 8.
rgb_to_hexShortShift(rgb) ==
    IF ~(\A i \in DOMAIN rgb : 0 <= rgb[i] /\ rgb[i] < 256) \/ Len(rgb) /= 3
    THEN Err("NotAnRgbTuple")
    ELSE Ok(BitOr(BitOr(ShiftLeft(rgb[1], 16), ShiftLeft(rgb[2], 4)), rgb[3]))

rgb_to_hex(rgb) ==
    IF ~(\A i \in DOMAIN rgb : 0 <= rgb[i] /\ rgb[i] < 256) \/ Len(rgb) /= 3
    THEN Err("NotAnRgbTuple")
    ELSE Ok(BitOr(BitOr(ShiftLeft(rgb[1], 16), ShiftLeft(rgb[2], 8)), rgb[3]))

\* ---------------------------------------------------------------- parse.py: single-format parsers

\* The text matched by the group of  ^#?([0-9A-Fa-f]{n})$  on the stripped
\* string, as <<group>>, or <<>> when the pattern does not match.
HexGroup(s, n) ==
    LET t == Strip(s)
        body == IF t /= <<>> /\ Head(t) = "#" THEN Tail(t) ELSE t
    IN IF Len(body) = n /\ AllHexDigits(body) THEN <<body>> ELSE <<>>

parse_hex6(hex6) ==
    LET m == HexGroup(hex6, 6) IN
    IF m /= <<>> THEN hex_to_rgb(IntOfBase(m[1], 16))
    ELSE Err("FormatMismatchError")

parse_hex3(hex3) ==
    LET m == HexGroup(hex3, 3) IN
    IF m /= <<>> THEN Ok([i \in 1..3 |-> IntOfBase(<<m[1][i], m[1][i]>>, 16)])
    ELSE Err("FormatMismatchError")

\* The three component texts of  ^rgb\(\s*(C)\s*,\s*(C)\s*,\s*(C)\s*\)$  on the
\* stripped string, each with its surrounding whitespace removed, or <<>> when
\* the frame  rgb( , , )  does not match.  The component pattern C is matched
\* by the caller: none of the three patterns admits a comma, a parenthesis or
\* whitespace, so the frame splits at the commas.
RgbFuncParts(s) ==
    LET t == Strip(s) IN
    IF Len(t) >= 5 /\ SubSeq(t, 1, 4) = <<"r", "g", "b", "(">> /\ t[Len(t)] = ")"
    THEN LET parts == Split(SubSeq(t, 5, Len(t) - 1), ",")
         IN IF Len(parts) = 3 THEN [i \in 1..3 |-> Strip(parts[i])] ELSE <<>>
    ELSE <<>>

\* \d{1,3}
MatchesInt(c) == Len(c) \in 1..3 /\ AllDigits(c)

parse_rgbfunc_int(rgbfunc) ==
    LET m == RgbFuncParts(rgbfunc) IN
    IF m /= <<>> /\ \A i \in 1..3 : MatchesInt(m[i])
    THEN LET t == [i \in 1..3 |-> IntOfBase(m[i], 10)]
         IN IF ~(\E i \in 1..3 : t[i] > 255) THEN Ok(t) ELSE Err("FormatMismatchError")
    ELSE Err("FormatMismatchError")

\* A decimal numeral  int [. frac]  as the exact fraction <<numerator, denominator>>.
RECURSIVE Pow10(_)
Pow10(n) == IF n = 0 THEN 1 ELSE 10 * Pow10(n - 1)
Decimal(c) ==
    LET parts == Split(c, ".")
        frac == IF Len(parts) = 2 THEN parts[2] ELSE <<>>
    IN <<IntOfBase(parts[1] \o frac, 10), Pow10(Len(frac))>>

\* int(round(num / den)) for num >= 0: round half to even.
RoundHalfEven(num, den) ==
    LET q == num \div den
        r2 == 2 * (num % den)
    IN IF r2 < den THEN q
       ELSE IF r2 > den THEN q + 1
       ELSE IF q % 2 = 0 THEN q ELSE q + 1

\* [01]\.\d+
MatchesFloat(c) ==
    /\ Len(c) >= 3
    /\ c[1] \in {"0", "1"}
    /\ c[2] = "."
    /\ AllDigits(SubSeq(c, 3, Len(c)))

parse_rgbfunc_float(rgbfunc) ==
    LET m == RgbFuncParts(rgbfunc) IN
    IF m /= <<>> /\ \A i \in 1..3 : MatchesFloat(m[i])
    THEN LET t == [i \in 1..3 |-> Decimal(m[i])]
         IN IF ~(\E i \in 1..3 : t[i][1] > t[i][2])
            THEN Ok([i \in 1..3 |-> RoundHalfEven(t[i][1] * 255, t[i][2])])
            ELSE Err("FormatMismatchError")
    ELSE Err("FormatMismatchError")

\* \d{1,3}(?:\.\d+)?  followed by %
MatchesPercent(c) ==
    /\ c /= <<>>
    /\ c[Len(c)] = "%"
    /\ LET parts == Split(SubSeq(c, 1, Len(c) - 1), ".")
       IN /\ Len(parts) \in 1..2
          /\ MatchesInt(parts[1])
          /\ Len(parts) = 2 => (parts[2] /= <<>> /\ AllDigits(parts[2]))

parse_rgbfunc_percent(rgbfunc) ==
    LET m == RgbFuncParts(rgbfunc) IN
    IF m /= <<>> /\ \A i \in 1..3 : MatchesPercent(m[i])
    THEN LET t == [i \in 1..3 |-> Decimal(SubSeq(m[i], 1, Len(m[i]) - 1))]
         IN IF ~(\E i \in 1..3 : t[i][1] > 100 * t[i][2])
            THEN Ok([i \in 1..3 |-> RoundHalfEven(t[i][1] * 255, t[i][2] * 100)])
            ELSE Err("FormatMismatchError")
    ELSE Err("FormatMismatchError")

\* A palette is a Python dict in insertion order: a sequence of <<name, hex string>>
\* pairs with distinct names.
Names(pal) == {pal[i][1] : i \in DOMAIN pal}
Lookup(pal, name) == pal[CHOOSE i \in DOMAIN pal : pal[i][1] = name][2]

\* The body shared by the five parse_name_* functions, on the palette given.
ParseName(pal, name) ==
    LET lowered == Lower(name) IN
    IF lowered \notin Names(pal) THEN Err("UnknownNameError")
    ELSE parse_hex6(Lookup(pal, lowered))

parse_name_css(name) == ParseName(css_names, name)
parse_name_crayola(name) == ParseName(crayola_names, name)
parse_name_xkcd(name) == ParseName(xkcd_names, name)
parse_name_meodai_best(name) == ParseName(meodai_best_names, name)
parse_name_meodai(name) == ParseName(meodai_names, name)

\* ---------------------------------------------------------------- parse.py: parse

\* The parsers in the order parse() appends them to funcs.
ParserOrder ==
    <<"hex6", "hex3", "rgbfunc_int", "rgbfunc_float", "rgbfunc_percent",
      "name_css", "name_crayola", "name_xkcd", "name_meodai_best", "name_meodai">>
ParserKinds == Range(ParserOrder)

\* func(colstr) for the parser function of the given kind.
RunParser(kind, colstr) ==
    CASE kind = "hex6" -> parse_hex6(colstr)
      [] kind = "hex3" -> parse_hex3(colstr)
      [] kind = "rgbfunc_int" -> parse_rgbfunc_int(colstr)
      [] kind = "rgbfunc_float" -> parse_rgbfunc_float(colstr)
      [] kind = "rgbfunc_percent" -> parse_rgbfunc_percent(colstr)
      [] kind = "name_css" -> parse_name_css(colstr)
      [] kind = "name_crayola" -> parse_name_crayola(colstr)
      [] kind = "name_xkcd" -> parse_name_xkcd(colstr)
      [] kind = "name_meodai_best" -> parse_name_meodai_best(colstr)
      [] kind = "name_meodai" -> parse_name_meodai(colstr)

\* funcs: the enabled parsers, in ParserOrder.
Funcs(enabled) == SelectSeq(ParserOrder, LAMBDA k : k \in enabled)

\* Mutant of ParseLoop: the first success is kept (the loop breaks on success).
RECURSIVE ParseLoopFirstWins(_, _, _)
ParseLoopFirstWins(funcs, colstr, res) ==
    IF funcs = <<>> \/ res /= <<>> THEN res
    ELSE LET r == RunParser(Head(funcs), colstr)
         IN ParseLoopFirstWins(Tail(funcs), colstr, IF r.ok THEN <<r.val>> ELSE res)

\* Mutant of ParseLoop: a parser's failure is not caught, and ends the loop as
\* the failure of parse itself.
RECURSIVE ParseLoopUncaught(_, _, _)
ParseLoopUncaught(funcs, colstr, res) ==
    IF funcs = <<>> THEN res
    ELSE LET r == RunParser(Head(funcs), colstr)
         IN IF r.ok THEN ParseLoopUncaught(Tail(funcs), colstr, <<r.val>>) ELSE <<>>

\* The loop  for func in funcs: try: res = func(colstr) except ValueError: pass.
\* res is <<>> for None and <<value>> otherwise.
RECURSIVE ParseLoop(_, _, _)
ParseLoop(funcs, colstr, res) ==
    IF funcs = <<>> THEN res
    ELSE LET r == RunParser(Head(funcs), colstr)
         IN ParseLoop(Tail(funcs), colstr, IF r.ok THEN <<r.val>> ELSE res)

parse(colstr, enabled) ==
    LET res == ParseLoop(Funcs(enabled), colstr, <<>>) IN
    IF res = <<>> THEN Err("NoMatchError") ELSE Ok(res[1])

\* ---------------------------------------------------------------- parse.py: nearest_named_color

\* The squared Euclidean distance of two colours: it orders colours, and ties
\* them, as the Euclidean distance does.
rough_color_distance(col1, col2) ==
    LET d(i) == col1[i] - col2[i] IN d(1) * d(1) + d(2) * d(2) + d(3) * d(3)

\* dict.update, one item: an existing key keeps its place and takes the new
\* value, a new key goes to the end.
SetItem(pool, item) ==
    IF item[1] \in Names(pool)
    THEN [i \in DOMAIN pool |-> IF pool[i][1] = item[1] THEN item ELSE pool[i]]
    ELSE Append(pool, item)
RECURSIVE Update(_, _)
Update(pool, pal) ==
    IF pal = <<>> THEN pool ELSE Update(SetItem(pool, Head(pal)), Tail(pal))

\* The palettes in the order nearest_named_color merges them.
MergeOrder == <<"meodai", "meodai_best", "xkcd", "crayola", "css">>
PaletteKinds == Range(MergeOrder)

PaletteOf(kind) ==
    CASE kind = "css" -> css_names
      [] kind = "crayola" -> crayola_names
      [] kind = "xkcd" -> xkcd_names
      [] kind = "meodai_best" -> meodai_best_names
      [] kind = "meodai" -> meodai_names

RECURSIVE MergeFrom(_, _, _)
MergeFrom(pool, order, flags) ==
    IF order = <<>> THEN pool
    ELSE MergeFrom(IF Head(order) \in flags THEN Update(pool, PaletteOf(Head(order))) ELSE pool,
                   Tail(order), flags)

\* Mutant of Colorpool: the palettes are merged in the order of the signature,
\* css first and meodai last.
ColorpoolReversed(flags) ==
    [colorpool |-> MergeFrom(<<>>, <<"css", "crayola", "xkcd", "meodai_best", "meodai">>, flags),
     palettes |-> palettes]

\* Mutant of Colorpool: colorpool starts as the meodai table itself instead of
\* a fresh dict, so the updates write into that table.
ColorpoolAliased(flags) ==
    LET merged == MergeFrom(meodai_names, Tail(MergeOrder), flags) IN
    [colorpool |-> merged,
     palettes |-> <<css_names, crayola_names, xkcd_names, meodai_best_names, merged>>]

\* colorpool = {} and the five conditional updates: the merged dict, and the
\* five module tables after it (update only reads its argument).
Colorpool(flags) ==
    [colorpool |-> MergeFrom(<<>>, MergeOrder, flags), palettes |-> palettes]

\* A value tagged with its Python type, where the type returned is in question.
PyStr(s) == [pytype |-> "str", v |-> s]
PyTuple(t) == [pytype |-> "tuple", v |-> t]

\* Mutant of MinItem: a later item at the same distance replaces the best so far.
RECURSIVE MinItemLastWins(_, _, _)
MinItemLastWins(items, col, best) ==
    IF items = <<>> THEN best
    ELSE LET key(d) == rough_color_distance(col, parse_hex6(d[2]).val)
         IN MinItemLastWins(Tail(items), col,
                IF best = <<>> \/ key(Head(items)) <= key(best[1]) THEN <<Head(items)>> ELSE best)

\* min(items, key=...): the first item of least key; best is <<>> before the
\* first item and <<item>> after.
RECURSIVE MinItem(_, _, _)
MinItem(items, col, best) ==
    IF items = <<>> THEN best
    ELSE LET key(d) == rough_color_distance(col, parse_hex6(d[2]).val)
         IN MinItem(Tail(items), col,
                IF best = <<>> \/ key(Head(items)) < key(best[1]) THEN <<Head(items)>> ELSE best)

\* The result of nearest_named_color on the merged dict: min() raises on an
\* empty dict, parse_hex6 raises on a malformed table value, and the value
\* returned with the name is the table's hex string.
nearest_named_color(col, colorpool) ==
    IF colorpool = <<>> THEN Err("EmptySequence")
    ELSE IF \E i \in DOMAIN colorpool : ~parse_hex6(colorpool[i][2]).ok
    THEN Err("FormatMismatchError")
    ELSE LET near == MinItem(colorpool, col, <<>>)[1]
         IN Ok(<<near[1], PyStr(near[2])>>)

\* ---------------------------------------------------------------- basic.py: align_bbox

\* An alignment argument is a Python number: [type |-> "int" or "float", val |-> n],
\* a float having an integral value here (5.0).
PyInt(n) == [type |-> "int", val |-> n]
PyFloat(n) == [type |-> "float", val |-> n]

\* Mutant of WrongSize: suppress_wrong_size is ignored.
WrongSizeUnsuppressed(fw, fh, bw, bh, suppress_wrong_size) ==
    fw < bw \/ fh < bh

\* (fw < bw or fh < bh) and not suppress_wrong_size
WrongSize(fw, fh, bw, bh, suppress_wrong_size) ==
    (fw < bw \/ fh < bh) /\ ~suppress_wrong_size

\* Mutant of InvalidAlign: the type of align is not checked.
InvalidAlignUntyped(align) ==
    ~(0 < align.val /\ align.val < 10)

\* not 0 < align < 10 or not isinstance(align, int)
InvalidAlign(align) ==
    ~(0 < align.val /\ align.val < 10) \/ align.type /= "int"

\* Mutant of CentreOffset: the half is rounded up.
CentreOffsetCeil(f, b) == (f - b + 1) \div 2

\* dx = (fw - bw) // 2, dy = (fh - bh) // 2
CentreOffset(f, b) == (f - b) \div 2

\* Mutant of Box: the rows of a telephone keypad, 1 2 3 on top and 7 8 9 below.
BoxPhoneKeypad(a, fx0, fy0, fx1, fy1, bw, bh) ==
    LET fw == fx1 - fx0
        fh == fy1 - fy0
        dx == (fw - bw) \div 2
        dy == (fh - bh) \div 2
    IN CASE a = 7 -> <<fx0, fy1 - bh, fx0 + bw, fy1>>
         [] a = 8 -> <<fx0 + dx, fy1 - bh, fx0 + dx + bw, fy1>>
         [] a = 9 -> <<fx1 - bw, fy1 - bh, fx1, fy1>>
         [] a = 4 -> <<fx0, fy0 + dy, fx0 + bw, fy0 + dy + bh>>
         [] a = 5 -> <<fx0 + dx, fy0 + dy, fx0 + dx + bw, fy0 + dy + bh>>
         [] a = 6 -> <<fx1 - bw, fy0 + dy, fx1, fy0 + dy + bh>>
         [] a = 1 -> <<fx0, fy0, fx0 + bw, fy0 + bh>>
         [] a = 2 -> <<fx0 + dx, fy0, fx0 + dx + bw, fy0 + bh>>
         [] a = 3 -> <<fx1 - bw, fy0, fx1, fy0 + bh>>

\* The if / elif chain on align: the box for each of the nine codes.
Box(a, fx0, fy0, fx1, fy1, bw, bh) ==
    LET fw == fx1 - fx0
        fh == fy1 - fy0
        dx == CentreOffset(fw, bw)
        dy == CentreOffset(fh, bh)
    IN CASE a = 1 -> <<fx0, fy1 - bh, fx0 + bw, fy1>>
         [] a = 2 -> <<fx0 + dx, fy1 - bh, fx0 + dx + bw, fy1>>
         [] a = 3 -> <<fx1 - bw, fy1 - bh, fx1, fy1>>
         [] a = 4 -> <<fx0, fy0 + dy, fx0 + bw, fy0 + dy + bh>>
         [] a = 5 -> <<fx0 + dx, fy0 + dy, fx0 + dx + bw, fy0 + dy + bh>>
         [] a = 6 -> <<fx1 - bw, fy0 + dy, fx1, fy0 + dy + bh>>
         [] a = 7 -> <<fx0, fy0, fx0 + bw, fy0 + bh>>
         [] a = 8 -> <<fx0 + dx, fy0, fx0 + dx + bw, fy0 + bh>>
         [] a = 9 -> <<fx1 - bw, fy0, fx1, fy0 + bh>>

\* Mutant of align_bbox: the margin is added to the right edge instead of
\* subtracted from it.
align_bboxMarginSign(frame, size, align, margin, topleft_only, suppress_wrong_size) ==
    LET fx0 == frame[1] + margin
        fy0 == frame[2] + margin
        fx1 == frame[3] + margin
        fy1 == frame[4] - margin
        fw == fx1 - fx0
        fh == fy1 - fy0
        bw == size[1]
        bh == size[2]
    IN IF WrongSize(fw, fh, bw, bh, suppress_wrong_size) THEN Err("SizeMismatchError")
       ELSE IF InvalidAlign(align) THEN Err("InvalidAlignmentError")
       ELSE LET box == Box(align.val, fx0, fy0, fx1, fy1, bw, bh)
            IN IF topleft_only THEN Ok(<<box[1], box[2]>>) ELSE Ok(box)

align_bbox(frame, size, align, margin, topleft_only, suppress_wrong_size) ==
    LET fx0 == frame[1] + margin
        fy0 == frame[2] + margin
        fx1 == frame[3] - margin
        fy1 == frame[4] - margin
        fw == fx1 - fx0
        fh == fy1 - fy0
        bw == size[1]
        bh == size[2]
    IN IF WrongSize(fw, fh, bw, bh, suppress_wrong_size) THEN Err("SizeMismatchError")
       ELSE IF InvalidAlign(align) THEN Err("InvalidAlignmentError")
       ELSE LET box == Box(align.val, fx0, fy0, fx1, fy1, bw, bh)
            IN IF topleft_only THEN Ok(<<box[1], box[2]>>) ELSE Ok(box)

\* ---------------------------------------------------------------- the palette tables as loaded

\* Sample contents of the five bundled JSON files, in the documented format
\* (lower-case name -> six hex digits, with or without #): names shared by
\* several tables with different colours, entries of equal colour, and a name
\* that is also three hex digits.
LoadedCss ==
    <<<<<<"a", "q", "u", "a">>, <<"#", "0", "0", "f", "f", "f", "f">>>>,
      <<<<"c", "y", "a", "n">>, <<"#", "0", "0", "f", "f", "f", "f">>>>,
      <<<<"g", "r", "e", "e", "n">>, <<"#", "0", "0", "8", "0", "0", "0">>>>,
      <<<<"r", "e", "d">>, <<"#", "f", "f", "0", "0", "0", "0">>>>>>
LoadedCrayola ==
    <<<<<<"r", "e", "d">>, <<"#", "e", "e", "2", "0", "4", "d">>>>,
      <<<<"g", "r", "e", "e", "n">>, <<"1", "c", "a", "c", "7", "8">>>>>>
LoadedXkcd ==
    <<<<<<"g", "r", "e", "e", "n">>, <<"#", "1", "5", "b", "0", "1", "a">>>>,
      <<<<"c", "y", "a", "n">>, <<"#", "0", "0", "f", "f", "f", "f">>>>,
      <<<<"r", "e", "d">>, <<"#", "e", "5", "0", "0", "0", "0">>>>>>
LoadedMeodaiBest ==
    <<<<<<"r", "e", "d">>, <<"#", "f", "f", "0", "0", "0", "0">>>>,
      <<<<"b", "a", "d">>, <<"#", "b", "a", "d", "a", "5", "5">>>>>>
LoadedMeodai ==
    <<<<<<"b", "a", "d">>, <<"#", "b", "a", "d", "a", "5", "5">>>>,
      <<<<"r", "e", "d">>, <<"#", "f", "f", "0", "0", "0", "0">>>>,
      <<<<"a", "q", "u", "a">>, <<"#", "0", "0", "f", "e", "f", "f">>>>>>

\* ---------------------------------------------------------------- inputs

Blanks(n) == [i \in 1..n |-> " "]

\* Colour strings: hex6 and hex3 forms, the three rgb() forms, names in several
\* cases, and near misses of each.
Bodies ==
    {<<"#", "a", "b", "3", "4", "d", "f">>,
     <<"A", "B", "3", "4", "D", "F">>,
     <<"#", "a", "3", "d">>,
     <<"a", "3", "d">>,
     <<"#", "a", "3", "g">>,
     <<"#", "a", "b", "3", "4", "d">>,
     <<"r", "g", "b", "(", "1", "7", "1", ",", "5", "2", ",", "2", "2", "3", ")">>,
     <<"r", "g", "b", "(", "0", ",", " ", "2", "5", "5", " ", ",", "7", ")">>,
     <<"r", "g", "b", "(", "2", "5", "6", ",", "0", ",", "0", ")">>,
     <<"r", "g", "b", "(", "1", ",", "2", ")">>,
     <<"R", "g", "b", "(", "1", ",", "2", ",", "3", ")">>,
     <<"r", "g", "b", "(", "0", ".", "6", "7", ",", "0", ".", "2", ",", "0", ".", "8", "7", ")">>,
     <<"r", "g", "b", "(", "1", ".", "0", ",", "0", ".", "5", ",", "0", ".", "0", ")">>,
     <<"r", "g", "b", "(", "1", ".", "5", ",", "0", ".", "0", ",", "0", ".", "0", ")">>,
     <<"r", "g", "b", "(", "0", ".", "5", ",", "1", ",", "0", ")">>,
     <<"r", "g", "b", "(", "6", "7", "%", ",", "2", "0", "%", ",", "8", "7", ".", "5", "%", ")">>,
     <<"r", "g", "b", "(", "1", "0", "0", "%", ",", "0", "%", ",", "5", "0", "%", ")">>,
     <<"r", "g", "b", "(", "1", "0", "1", "%", ",", "0", "%", ",", "0", "%", ")">>,
     <<"r", "g", "b", "(", "5", " ", "%", ",", "0", "%", ",", "0", "%", ")">>,
     <<"r", "e", "d">>,
     <<"R", "e", "d">>,
     <<"G", "R", "E", "E", "N">>,
     <<"a", "q", "u", "a">>,
     <<"c", "y", "a", "n">>,
     <<"b", "a", "d">>,
     <<"B", "A", "D">>,
     <<"b", "l", "u", "e">>,
     <<>>}
\* The bodies that are also given with blanks before and after them.
PaddedBodies ==
    {<<"#", "a", "3", "d">>,
     <<"r", "g", "b", "(", "1", "7", "1", ",", "5", "2", ",", "2", "2", "3", ")">>,
     <<"r", "e", "d">>,
     <<"b", "a", "d">>}
ColorStrings ==
    Bodies \cup {Blanks(l) \o b \o Blanks(t) : l \in 0..MaxPad, t \in 0..MaxPad, b \in PaddedBodies}

Channels == {0, 128, 255}
Colors == {<<r, g, b>> : r \in Channels, g \in Channels, b \in Channels}

\* Arguments of rgb_to_hex: channels at and beyond both ends of 0..255.
WideChannels == {-1, 0, 1, 15, 16, 255, 256}
RgbArgs == {<<r, g, b>> : r \in WideChannels, g \in WideChannels, b \in WideChannels}
\* Arguments of hex_to_rgb: numbers at and beyond both ends of 0..0xFFFFFF.
HexArgs == {-1, 0, 255, 256, 65535, 65536, MaxRgbNumber, MaxRgbNumber + 1}

Frames ==
    {<<x0, y0, x1, y1>> : x0 \in 0..MaxCoord, y0 \in 0..MaxCoord,
                          x1 \in 0..MaxCoord, y1 \in 0..MaxCoord}
    \ {f \in (0..MaxCoord) \X (0..MaxCoord) \X (0..MaxCoord) \X (0..MaxCoord) :
         f[1] > f[3] \/ f[2] > f[4]}
Sizes == (0..MaxSize) \X (0..MaxSize)
Margins == (-MaxMargin)..MaxMargin
AlignArgs == {PyInt(n) : n \in -1..10} \cup {PyFloat(5)}

\* The arguments of one align_bbox call.
AlignCall(frame, size, align, margin, topleft_only, suppress_wrong_size) ==
    [op |-> "align_bbox", frame |-> frame, size |-> size, align |-> align,
     margin |-> margin, topleft_only |-> topleft_only,
     suppress_wrong_size |-> suppress_wrong_size]

\* The documented call align_bbox((0, 0, 100, 100), (20, 20), align=1, margin=5).
ExampleAlignCall == AlignCall(<<0, 0, 100, 100>>, <<20, 20>>, PyInt(1), 5, FALSE, FALSE)

AlignCalls ==
    {AlignCall(f, s, a, m, t, w) :
        f \in Frames, s \in Sizes, a \in AlignArgs, m \in Margins,
        t \in BOOLEAN, w \in BOOLEAN}
    \cup {ExampleAlignCall}

\* ---------------------------------------------------------------- the state machine

\* The module has been imported: the tables are loaded and no call is in progress.
Init ==
    /\ css_names = LoadedCss
    /\ crayola_names = LoadedCrayola
    /\ xkcd_names = LoadedXkcd
    /\ meodai_best_names = LoadedMeodaiBest
    /\ meodai_names = LoadedMeodai
    /\ call = NoCall
    /\ ret = NoRet

\* parse(colstr, hex6=..., ..., name_meodai=...)
Parse ==
    /\ call = NoCall
    /\ \E colstr \in ColorStrings, enabled \in SUBSET ParserKinds :
          /\ call' = [op |-> "parse", colstr |-> colstr, enabled |-> enabled]
          /\ ret' = parse(colstr, enabled)
    /\ UNCHANGED palettes

\* One of the ten single-format parsers, called directly.
ParseSingle ==
    /\ call = NoCall
    /\ \E colstr \in ColorStrings, kind \in ParserKinds :
          /\ call' = [op |-> "parse_single", colstr |-> colstr, kind |-> kind]
          /\ ret' = RunParser(kind, colstr)
    /\ UNCHANGED palettes

\* nearest_named_color(col, css=..., crayola=..., xkcd=..., meodai_best=..., meodai=...)
NearestNamedColor ==
    /\ call = NoCall
    /\ \E col \in Colors, flags \in SUBSET PaletteKinds :
          LET merged == Colorpool(flags) IN
          /\ call' = [op |-> "nearest_named_color", col |-> col, flags |-> flags]
          /\ ret' = nearest_named_color(col, merged.colorpool)
          /\ css_names' = merged.palettes[1]
          /\ crayola_names' = merged.palettes[2]
          /\ xkcd_names' = merged.palettes[3]
          /\ meodai_best_names' = merged.palettes[4]
          /\ meodai_names' = merged.palettes[5]

\* rgb_to_hex(rgb)
RgbToHex ==
    /\ call = NoCall
    /\ \E rgb \in RgbArgs :
          /\ call' = [op |-> "rgb_to_hex", rgb |-> rgb]
          /\ ret' = rgb_to_hex(rgb)
    /\ UNCHANGED palettes

\* hex_to_rgb(rgb) on a number given by the caller.
HexToRgb ==
    /\ call = NoCall
    /\ \E rgb \in HexArgs :
          /\ call' = [op |-> "hex_to_rgb", rgb |-> rgb, of |-> <<>>]
          /\ ret' = hex_to_rgb(rgb)
    /\ UNCHANGED palettes

\* hex_to_rgb(rgb_to_hex(r)): hex_to_rgb on the number rgb_to_hex has just
\* returned; of remembers r.
HexToRgbOfResult ==
    /\ call.op = "rgb_to_hex"
    /\ ret.ok
    /\ call' = [op |-> "hex_to_rgb", rgb |-> ret.val, of |-> <<call.rgb>>]
    /\ ret' = hex_to_rgb(ret.val)
    /\ UNCHANGED palettes

\* align_bbox(frame, size, align, margin, topleft_only, suppress_wrong_size)
AlignBbox ==
    /\ call = NoCall
    /\ \E c \in AlignCalls :
          /\ call' = c
          /\ ret' = align_bbox(c.frame, c.size, c.align, c.margin, c.topleft_only,
                               c.suppress_wrong_size)
    /\ UNCHANGED palettes

\* The caller takes the outcome; the next call may start.
Return ==
    /\ call /= NoCall
    /\ call' = NoCall
    /\ ret' = NoRet
    /\ UNCHANGED palettes

NextColor ==
    \/ Parse
    \/ ParseSingle
    \/ NearestNamedColor
    \/ RgbToHex
    \/ HexToRgb
    \/ HexToRgbOfResult
    \/ Return

NextAlign ==
    \/ AlignBbox
    \/ Return

Next == NextColor \/ NextAlign

\* The colour functions of parse.py and the hex conversions of basic.py.
SpecColor == Init /\ [][NextColor]_vars
\* align_bbox alone.
SpecAlign == Init /\ [][NextAlign]_vars
\* Every operation.
Spec == Init /\ [][Next]_vars

\* ---------------------------------------------------------------- properties: parse

\* The priority order the specification gives for the parsers.
SpecifiedParserOrder ==
    <<"hex6", "hex3", "rgbfunc_int", "rgbfunc_float", "rgbfunc_percent",
      "name_css", "name_crayola", "name_xkcd", "name_meodai_best", "name_meodai">>

\* The places, in the specified order, of the enabled parsers that succeed on
\* the string of the parse call in progress.
Succeeding ==
    {i \in DOMAIN SpecifiedParserOrder :
        /\ SpecifiedParserOrder[i] \in call.enabled
        /\ RunParser(SpecifiedParserOrder[i], call.colstr).ok}

Greatest(S) == CHOOSE i \in S : \A j \in S : j <= i

\* C1: whenever at least one enabled parser succeeds, parse returns the result
\* of the last parser, in the order hex6, hex3, rgbfunc_int, rgbfunc_float,
\* rgbfunc_percent, name_css, name_crayola, name_xkcd, name_meodai_best,
\* name_meodai, that is enabled and succeeds, for every string and every set
\* of enabled parsers.
C1_LastSuccessWins ==
    (call.op = "parse" /\ Succeeding /= {}) =>
        ret = RunParser(SpecifiedParserOrder[Greatest(Succeeding)], call.colstr)

\* C1 witness: two enabled parsers succeed with different results, and parse
\* has returned the later one's.
C1_Witness ==
    /\ call.op = "parse"
    /\ \E i \in Succeeding :
          /\ i < Greatest(Succeeding)
          /\ RunParser(SpecifiedParserOrder[i], call.colstr) /= ret
    /\ ret = RunParser(SpecifiedParserOrder[Greatest(Succeeding)], call.colstr)

\* C2: parse fails with NoMatchError exactly when no enabled parser succeeds
\* (also when none is enabled), and it fails with no other error: the
\* FormatMismatchError or UnknownNameError of a single parser never leaves parse.
C2_NoMatchIffNoneSucceeds ==
    call.op = "parse" =>
        /\ (~ret.ok) <=> (\A k \in call.enabled : ~RunParser(k, call.colstr).ok)
        /\ (~ret.ok) => ret = Err("NoMatchError")

\* C2 witness: parse has failed with NoMatchError after one enabled parser
\* failed with FormatMismatchError and another with UnknownNameError.
C2_Witness ==
    /\ call.op = "parse"
    /\ ret = Err("NoMatchError")
    /\ \E k \in call.enabled : RunParser(k, call.colstr) = Err("FormatMismatchError")
    /\ \E k \in call.enabled : RunParser(k, call.colstr) = Err("UnknownNameError")

\* ---------------------------------------------------------------- properties: align_bbox

\* The frame of the align_bbox call in progress, shrunk by the margin on all
\* four sides, and the box size asked for.
ShrunkX0 == call.frame[1] + call.margin
ShrunkY0 == call.frame[2] + call.margin
ShrunkX1 == call.frame[3] - call.margin
ShrunkY1 == call.frame[4] - call.margin
ShrunkWidth == ShrunkX1 - ShrunkX0
ShrunkHeight == ShrunkY1 - ShrunkY0
BoxWidth == call.size[1]
BoxHeight == call.size[2]
Fits == BoxWidth <= ShrunkWidth /\ BoxHeight <= ShrunkHeight

\* The alignment codes: the integers 1..9.
ValidAligns == {PyInt(n) : n \in 1..9}

\* floor(n / 2): the integer q with 2q <= n < 2q + 2.
FloorHalf(n) == CHOOSE q \in -(n * n + 1)..(n * n + 1) : 2 * q <= n /\ n < 2 * q + 2

\* The numpad placement of the specification, one axis at a time.
NumpadX0 ==
    IF call.align.val \in {1, 4, 7} THEN ShrunkX0
    ELSE IF call.align.val \in {2, 5, 8} THEN ShrunkX0 + FloorHalf(ShrunkWidth - BoxWidth)
    ELSE ShrunkX1 - BoxWidth
NumpadY0 ==
    IF call.align.val \in {7, 8, 9} THEN ShrunkY0
    ELSE IF call.align.val \in {4, 5, 6} THEN ShrunkY0 + FloorHalf(ShrunkHeight - BoxHeight)
    ELSE ShrunkY1 - BoxHeight
NumpadBox == <<NumpadX0, NumpadY0, NumpadX0 + BoxWidth, NumpadY0 + BoxHeight>>

\* C3: for every frame, margin, size that fits the margin-shrunk frame and
\* alignment code 1..9, align_bbox returns the box placed on the shrunk frame by
\* numpad semantics: codes 1,4,7 flush left, 2,5,8 centred with offset
\* floor((frameWidth - boxWidth) / 2), 3,6,9 flush right; 7,8,9 flush top, 4,5,6
\* centred with offset floor((frameHeight - boxHeight) / 2), 1,2,3 flush bottom
\* (its top-left corner alone when topleft_only is set).
C3_NumpadPlacement ==
    (call.op = "align_bbox" /\ call.align \in ValidAligns /\ Fits) =>
        ret = Ok(IF call.topleft_only THEN <<NumpadX0, NumpadY0>> ELSE NumpadBox)

\* C3 witness: align_bbox((0, 0, 100, 100), (20, 20), align=1, margin=5) has
\* returned (5, 75, 25, 95).
C3_Witness ==
    /\ call = ExampleAlignCall
    /\ ret = Ok(<<5, 75, 25, 95>>)

\* C4 as stated: for every frame, size, margin and suppress_wrong_size, a call
\* whose alignment code is not an integer in 1..9 fails with InvalidAlignmentError.
C4_InvalidAlignAlwaysReported ==
    (call.op = "align_bbox" /\ call.align \notin ValidAligns) =>
        ret = Err("InvalidAlignmentError")

\* C4 amended: a call whose alignment code is not an integer in 1..9 fails with
\* InvalidAlignmentError whenever the size fits the margin-shrunk frame or
\* suppress_wrong_size is set; when the size does not fit and
\* suppress_wrong_size is unset, the size is checked first and the call fails
\* with SizeMismatchError.
C4_InvalidAlignAfterSizeCheck ==
    (call.op = "align_bbox" /\ call.align \notin ValidAligns) =>
        ret = IF ~Fits /\ ~call.suppress_wrong_size
              THEN Err("SizeMismatchError")
              ELSE Err("InvalidAlignmentError")

\* C4 witness: a call with the non-integer code 5.0 and a size that fits has
\* failed with InvalidAlignmentError.
C4_Witness ==
    /\ call.op = "align_bbox"
    /\ call.align = PyFloat(5)
    /\ Fits
    /\ ret = Err("InvalidAlignmentError")

\* C5: align_bbox fails with SizeMismatchError when the margin-shrunk frame is
\* narrower or lower than the size and suppress_wrong_size is unset; with
\* suppress_wrong_size set it does not fail for any code 1..9, any frame, any
\* margin and any size.
C5_SizeMismatchUnlessSuppressed ==
    call.op = "align_bbox" =>
        /\ (~Fits /\ ~call.suppress_wrong_size) => ret = Err("SizeMismatchError")
        /\ (call.suppress_wrong_size /\ call.align \in ValidAligns) => ret.ok

\* C5 witness: with suppress_wrong_size set and a size exceeding the shrunk
\* frame, the call has returned a box that leaves the frame, with a negative
\* coordinate.
C5_Witness ==
    /\ call.op = "align_bbox"
    /\ call.suppress_wrong_size
    /\ ~call.topleft_only
    /\ call.align \in ValidAligns
    /\ ~Fits
    /\ ret.ok
    /\ ret.val[1] < call.frame[1]
    /\ ret.val[1] < 0

\* C6: for every frame and size that fits, align code 5 centres the box: on
\* each axis the slack before the box (left, top) equals the slack after it
\* (right, bottom) or is exactly one less.
C6_CentredSlack ==
    (call.op = "align_bbox" /\ call.align = PyInt(5) /\ Fits /\ ~call.topleft_only) =>
        /\ ret.ok
        /\ LET before == ret.val[1] - ShrunkX0
               after == ShrunkX1 - ret.val[3]
           IN before = after \/ before = after - 1
        /\ LET before == ret.val[2] - ShrunkY0
               after == ShrunkY1 - ret.val[4]
           IN before = after \/ before = after - 1

\* C6 witness: a centred box with odd slack across (one less on the left than
\* on the right) and even, non-zero slack down.
C6_Witness ==
    /\ call.op = "align_bbox"
    /\ call.align = PyInt(5)
    /\ Fits
    /\ ~call.topleft_only
    /\ ret.ok
    /\ ret.val[1] - ShrunkX0 = (ShrunkX1 - ret.val[3]) - 1
    /\ ret.val[2] - ShrunkY0 = ShrunkY1 - ret.val[4]
    /\ ret.val[2] - ShrunkY0 > 0

\* C11: for every alignment code 1..9 and every frame, margin and size that
\* fits the margin-shrunk frame, the box returned has exactly the width and
\* height asked for and lies inside the margin-shrunk frame.
C11_BoxSizedAndInside ==
    (call.op = "align_bbox" /\ call.align \in ValidAligns /\ Fits /\ ~call.topleft_only) =>
        /\ ret.ok
        /\ ret.val[3] - ret.val[1] = BoxWidth
        /\ ret.val[4] - ret.val[2] = BoxHeight
        /\ ShrunkX0 <= ret.val[1]
        /\ ret.val[3] <= ShrunkX1
        /\ ShrunkY0 <= ret.val[2]
        /\ ret.val[4] <= ShrunkY1

\* C11 witness: with a non-zero margin, a box of positive width and height,
\* smaller than the shrunk frame on both axes, has been placed flush right and
\* flush bottom, its right and bottom edges on the shrunk frame's.
C11_Witness ==
    /\ call.op = "align_bbox"
    /\ call.align = PyInt(3)
    /\ call.margin /= 0
    /\ ~call.topleft_only
    /\ BoxWidth > 0 /\ BoxHeight > 0
    /\ BoxWidth < ShrunkWidth /\ BoxHeight < ShrunkHeight
    /\ ret.ok
    /\ ret.val[3] = ShrunkX1 /\ ret.val[4] = ShrunkY1
    /\ ret.val[3] - ret.val[1] = BoxWidth
    /\ ret.val[4] - ret.val[2] = BoxHeight

\* ---------------------------------------------------------------- properties: nearest_named_color

\* The merge order the specification gives for the palettes.
SpecifiedMergeOrder == <<"meodai", "meodai_best", "xkcd", "crayola", "css">>

\* The items of the enabled palettes of the nearest_named_color call in
\* progress, one palette after the other in the specified order.
RECURSIVE ConcatEnabled(_)
ConcatEnabled(order) ==
    IF order = <<>> THEN <<>>
    ELSE (IF Head(order) \in call.flags THEN PaletteOf(Head(order)) ELSE <<>>)
         \o ConcatEnabled(Tail(order))
EnabledItems == ConcatEnabled(SpecifiedMergeOrder)
EnabledNames == Names(EnabledItems)

\* A name's first and last place among those items: its place in the merged
\* mapping's iteration order, and the item whose colour the merge keeps.
FirstPlace(name) ==
    CHOOSE i \in DOMAIN EnabledItems :
        /\ EnabledItems[i][1] = name
        /\ \A j \in DOMAIN EnabledItems : EnabledItems[j][1] = name => i <= j
LastPlace(name) ==
    CHOOSE i \in DOMAIN EnabledItems :
        /\ EnabledItems[i][1] = name
        /\ \A j \in DOMAIN EnabledItems : EnabledItems[j][1] = name => j <= i
MergedHex(name) == EnabledItems[LastPlace(name)][2]
MergedRgb(name) == parse_hex6(MergedHex(name)).val

\* The distance from the colour asked for to the merged colour of a name.
Distance(name) == rough_color_distance(call.col, MergedRgb(name))

\* C7 as stated: nearest_named_color returns (name, rgb) where name is an entry
\* of the merged palette at the least Euclidean distance from col among all
\* entries, and rgb is that entry's decoded RGB triple of integers in 0..255.
C7_NearestNameAndRgb ==
    (call.op = "nearest_named_color" /\ ret.ok) =>
        /\ ret.val[1] \in EnabledNames
        /\ \A m \in EnabledNames : Distance(ret.val[1]) <= Distance(m)
        /\ ret.val[2].pytype = "tuple"
        /\ ret.val[2] = PyTuple(MergedRgb(ret.val[1]))

\* The part of C7 the code keeps: the name returned is an entry of the merged
\* palette at the least distance from col, and the value returned with it is
\* that entry's hex string as the table holds it.
NearestNameAndHex ==
    (call.op = "nearest_named_color" /\ ret.ok) =>
        /\ ret.val[1] \in EnabledNames
        /\ \A m \in EnabledNames : Distance(ret.val[1]) <= Distance(m)
        /\ ret.val[2] = PyStr(MergedHex(ret.val[1]))

\* C8: the enabled palettes are merged in the order meodai, meodai_best, xkcd,
\* crayola, css, so a name in several enabled palettes has the colour of the
\* latest of them; and among the entries at the least distance the one first in
\* the merged mapping's iteration order is returned.
C8_MergeOrderAndFirstTie ==
    (call.op = "nearest_named_color" /\ ret.ok) =>
        LET near == ret.val[1] IN
        /\ near \in EnabledNames
        /\ ret.val[2].v = MergedHex(near)
        /\ \A m \in EnabledNames :
              \/ Distance(near) < Distance(m)
              \/ Distance(near) = Distance(m) /\ FirstPlace(near) <= FirstPlace(m)

\* C8 witness: the name returned is in two enabled palettes with different
\* colours, and another name, later in the iteration order, is at the same
\* least distance.
C8_Witness ==
    /\ call.op = "nearest_named_color"
    /\ ret.ok
    /\ EnabledItems[FirstPlace(ret.val[1])][2] /= MergedHex(ret.val[1])
    /\ ret.val[2].v = MergedHex(ret.val[1])
    /\ \E m \in EnabledNames :
          /\ m /= ret.val[1]
          /\ Distance(m) = Distance(ret.val[1])
          /\ FirstPlace(ret.val[1]) < FirstPlace(m)

\* ---------------------------------------------------------------- properties: hex conversions

\* A triple of integers in 0..255.
IsRgbTriple(r) == Len(r) = 3 /\ \A i \in 1..3 : r[i] \in 0..255

\* C9: for every RGB triple r of integers in 0..255, rgb_to_hex(r) does not
\* fail, and hex_to_rgb of its result does not fail and is r.
C9_HexRoundTrip ==
    /\ (call.op = "rgb_to_hex" /\ IsRgbTriple(call.rgb)) => ret.ok
    /\ (call.op = "hex_to_rgb" /\ call.of /= <<>> /\ IsRgbTriple(call.of[1])) =>
          ret = Ok(call.of[1])

\* C9 witness: hex_to_rgb(rgb_to_hex((255, 16, 1))) has returned (255, 16, 1).
C9_Witness ==
    /\ call.op = "hex_to_rgb"
    /\ call.of = << <<255, 16, 1>> >>
    /\ ret = Ok(<<255, 16, 1>>)

\* ---------------------------------------------------------------- properties: the palette tables

\* C10: after any sequence of parse, single-parser and nearest_named_color
\* calls, whatever their arguments and outcomes, the five palette tables hold
\* what was loaded.
C10_PalettesAsLoaded ==
    /\ css_names = LoadedCss
    /\ crayola_names = LoadedCrayola
    /\ xkcd_names = LoadedXkcd
    /\ meodai_best_names = LoadedMeodaiBest
    /\ meodai_names = LoadedMeodai

\* C10 witness: nearest_named_color has merged all five palettes and returned,
\* and the tables hold what was loaded.
C10_Witness ==
    /\ call.op = "nearest_named_color"
    /\ call.flags = PaletteKinds
    /\ ret.ok
    /\ C10_PalettesAsLoaded

====
